---- MODULE Spec2Model ----
(***************************************************************************)
(* Model of cli_virtual_assistant.py: validated fields (Name, Phone,       *)
(* Birthday), Record with its phone list and birthday countdown, and       *)
(* AddressBook (a UserDict) with search and paginated iteration.           *)
(*                                                                         *)
(* Python objects live on a heap: `fields` and `records` are sequences     *)
(* whose index is the object's identity; 0 is the reference None.          *)
(* Python values are tagged records so that values of different types can  *)
(* be compared: a str is a sequence of one-character strings.              *)
(***************************************************************************)
EXTENDS Integers, Sequences, FiniteSets, TLC

VARIABLES now, fields, records, data, keys_iter, call

vars == <<now, fields, records, data, keys_iter, call>>

\* N of the source, the default page size of AddressBook.__next__
N == 10

----------------------------------------------------------------------------
(* Python values *)

PyNone == [t |-> "None"]
PyStr(s) == [t |-> "str", v |-> s]
PyInt(i) == [t |-> "int", v |-> i]
PyList(l) == [t |-> "list", v |-> l]
PyRef(i) == [t |-> "ref", v |-> i]
PyRaise(e) == [t |-> "raise", exc |-> e]
\* a datetime: date, second of the day and microsecond of the second
PyDate(y, m, d, sc, u) ==
    [t |-> "datetime", year |-> y, month |-> m, day |-> d, sec |-> sc, us |-> u]

DigitChars == <<"0", "1", "2", "3", "4", "5", "6", "7", "8", "9">>
Digits == {DigitChars[i] : i \in 1..10}

\* str.isdigit on one character
isdigit(c) == c \in Digits

\* truth value of a Python value (None and "" are false; a datetime is true)
Truthy(value) ==
    CASE value.t = "None" -> FALSE
      [] value.t = "str" -> Len(value.v) > 0
      [] OTHER -> TRUE

----------------------------------------------------------------------------
(* bounds of the model *)

MaxDigits == 13
MaxStrLen == 20
MaxFieldObjs == 1
MaxBirthdayFields == 2
MaxHeapFields == 3
MaxPhones == 3
MaxPage == 2

----------------------------------------------------------------------------
(* inputs *)

Rep(c, n) == [i \in 1..n |-> c]

\* strings made of nd digit characters and nx other characters, digits
\* first or last: every digit count 0..MaxDigits with every total length
\* up to MaxStrLen
WideStrings ==
    { PyStr(Rep("7", nd) \o Rep("-", nx)) : nd \in 0..MaxDigits, nx \in 0..MaxStrLen }
    \cup { PyStr(Rep("+", nx) \o Rep("3", nd)) : nd \in 0..MaxDigits, nx \in 0..MaxStrLen }
    \cup { PyStr(Rep("(", 1) \o Rep("0", nd) \o Rep(" ", nx)) :
               nd \in 0..MaxDigits, nx \in 0..MaxStrLen }

PhoneInputs == { s \in WideStrings : Len(s.v) <= MaxStrLen }

Bill == PyStr(<<"B", "i", "l", "l">>)
JohnDoe == PyStr(<<"J", "o", "h", "n", " ", "D", "o", "e">>)
Ann == PyStr(<<"A", "n", "n">>)
Empty == PyStr(<<>>)

\* '1234567890', '4567891232' and '+38(098)765-43-31' of the driver, and a
\* string that is too short to be a phone number
Phone1 == PyStr(<<"1", "2", "3", "4", "5", "6", "7", "8", "9", "0">>)
Phone2 == PyStr(<<"4", "5", "6", "7", "8", "9", "1", "2", "3", "2">>)
Phone3 == PyStr(<<"+", "3", "8", "(", "0", "9", "8", ")", "7", "6", "5", "-", "4", "3", "-", "3", "1">>)
PhoneBad == PyStr(<<"1", "2", "3">>)

\* instants of the clock, in increasing order
Instants ==
    << PyDate(2026, 8, 23, 86399, 999999), PyDate(2026, 8, 24, 0, 0),
       PyDate(2026, 8, 24, 0, 1), PyDate(2026, 8, 24, 43200, 0),
       PyDate(2026, 8, 24, 86399, 999999), PyDate(2027, 2, 28, 43200, 0),
       PyDate(2028, 2, 29, 0, 0), PyDate(2028, 2, 29, 43200, 0) >>

BirthdayInputs ==
    { PyDate(1991, 8, 24, 0, 0), PyDate(1991, 8, 25, 0, 0), PyDate(1991, 8, 23, 0, 0),
      PyDate(1992, 2, 29, 0, 0), PyDate(1926, 8, 24, 0, 0), PyDate(1925, 8, 24, 0, 0),
      PyDate(2026, 8, 24, 0, 0), PyDate(2027, 1, 1, 0, 0), PyNone }

----------------------------------------------------------------------------
(* Field, Name, Phone, Birthday *)

\* Field.valid_value (inherited by Name)
FieldValid(value) == Truthy(value)

PhoneValid_OffByOne(value) ==
    LET phone == SelectSeq(value.v, isdigit)
    IN  8 <= Len(phone) /\ Len(phone) < 13 /\ Len(value.v) < 20

\* Phone.valid_value
PhoneValid(value) ==
    LET phone == SelectSeq(value.v, isdigit)
    IN  8 < Len(phone) /\ Len(phone) < 13 /\ Len(value.v) < 20

\* Birthday.valid_value; datetime.now() is read from the clock
BirthdayValid(birthday, current) ==
    /\ birthday.t = "datetime"
    /\ 0 < current.year - birthday.year
    /\ current.year - birthday.year <= 100

\* self.valid_value(val), dispatched on the class of the field
valid_value(kind, val, current) ==
    CASE kind = "Phone" -> PhoneValid(val)
      [] kind = "Birthday" -> BirthdayValid(val, current)
      [] OTHER -> FieldValid(val)

setter_Unchecked(f, val, current) == [f EXCEPT !.value = val]

\* the value setter: the assignment happens only if the value is valid
setter(f, val, current) ==
    IF valid_value(f.kind, val, current) THEN [f EXCEPT !.value = val] ELSE f

\* Field.__init__: the value is None, then the setter runs
FieldInit(kind, val, current) == setter([kind |-> kind, value |-> PyNone], val, current)

Kinds == {"Name", "Phone", "Birthday"}

FieldIds == 1..Len(fields)
IdsOf(kind) == { f \in FieldIds : fields[f].kind = kind }

\* Name(val), Phone(val), Birthday(val)
NewField(kind, val) ==
    /\ fields' = Append(fields, FieldInit(kind, val, now))
    /\ call' = [op |-> kind, args |-> <<val>>, ret |-> PyRef(Len(fields) + 1)]
    /\ UNCHANGED <<now, records, data, keys_iter>>

\* f.value = val
SetValue(f, val) ==
    /\ f \in FieldIds
    /\ fields' = [fields EXCEPT ![f] = setter(fields[f], val, now)]
    /\ call' = [op |-> "value.setter", args |-> <<PyRef(f), val>>, ret |-> PyNone]
    /\ UNCHANGED <<now, records, data, keys_iter>>

\* time passes: datetime.now() is later at a later call
DtLess(a, b) ==
    \/ a.year < b.year
    \/ a.year = b.year /\ a.month < b.month
    \/ a.year = b.year /\ a.month = b.month /\ a.day < b.day
    \/ a.year = b.year /\ a.month = b.month /\ a.day = b.day /\ a.sec < b.sec
    \/ a.year = b.year /\ a.month = b.month /\ a.day = b.day /\ a.sec = b.sec /\ a.us < b.us

Tick ==
    /\ \E i \in 1..Len(Instants) : DtLess(now, Instants[i]) /\ now' = Instants[i]
    /\ UNCHANGED <<fields, records, data, keys_iter, call>>

NoCall == [op |-> "none", args |-> <<>>, ret |-> PyNone]
NoIter == [st |-> "unset", pos |-> 0, used |-> 0]

NameInputs == {Bill, JohnDoe, Empty, PyNone}

\* a valid and an invalid phone of the driver's kind, and strings at the edges
\* of the rule: 8 and 9 digits, 19 and 20 characters
FieldPhoneInputs ==
    {Phone1, PhoneBad, PyStr(Rep("7", 8)), PyStr(Rep("7", 9)),
     PyStr(Rep("7", 9) \o Rep("-", 10)), PyStr(Rep("7", 9) \o Rep("-", 11))}

InputsOf(kind) ==
    CASE kind = "Phone" -> FieldPhoneInputs
      [] kind = "Birthday" -> BirthdayInputs
      [] OTHER -> NameInputs

----------------------------------------------------------------------------
(* the fields alone *)

InitField ==
    /\ now \in {Instants[i] : i \in 1..Len(Instants)}
    /\ fields = <<>>
    /\ records = <<>>
    /\ data = <<>>
    /\ keys_iter = NoIter
    /\ call = NoCall

NextField ==
    \/ \E kind \in Kinds : \E val \in InputsOf(kind) :
          Len(fields) < MaxFieldObjs /\ NewField(kind, val)
    \/ \E f \in FieldIds : \E val \in InputsOf(fields[f].kind) : SetValue(f, val)
    \/ Tick

SpecField == InitField /\ [][NextField]_vars

----------------------------------------------------------------------------
(* Phone(s) over the strings *)

InitPhone ==
    /\ now = Instants[1]
    /\ fields = <<>>
    /\ records = <<>>
    /\ data = <<>>
    /\ keys_iter = NoIter
    /\ call = NoCall

NextPhone ==
    \E val \in PhoneInputs : Len(fields) < MaxFieldObjs /\ NewField("Phone", val)

SpecPhone == InitPhone /\ [][NextPhone]_vars

----------------------------------------------------------------------------
(* datetime arithmetic *)

IsLeap(y) == y % 4 = 0 /\ (y % 100 # 0 \/ y % 400 = 0)

DaysInMonth(y, m) ==
    CASE m = 2 -> IF IsLeap(y) THEN 29 ELSE 28
      [] m \in {4, 6, 9, 11} -> 30
      [] OTHER -> 31

\* datetime(y, m, d) raises ValueError when the day is out of range for the month
ValidDate(y, m, d) == m \in 1..12 /\ d >= 1 /\ d <= DaysInMonth(y, m)

RECURSIVE DaysBeforeMonth(_, _)
DaysBeforeMonth(y, m) ==
    IF m = 1 THEN 0 ELSE DaysBeforeMonth(y, m - 1) + DaysInMonth(y, m - 1)

DaysBeforeYear(y) == (y - 1) * 365 + (y - 1) \div 4 - (y - 1) \div 100 + (y - 1) \div 400

\* date.toordinal
Ordinal(dt) == DaysBeforeYear(dt.year) + DaysBeforeMonth(dt.year, dt.month) + dt.day

\* (a - b).days: the timedelta is normalised so that 0 <= seconds < 86400 and
\* 0 <= microseconds < 1000000, the days carrying the sign
TimedeltaDays(a, b) ==
    LET carry == (a.us - b.us) \div 1000000
        secs == a.sec - b.sec + carry
    IN  Ordinal(a) - Ordinal(b) + secs \div 86400

----------------------------------------------------------------------------
(* Record *)

RecordIds == 1..Len(records)

\* the values of a list of Phone objects
Values(phones) == [i \in 1..Len(phones) |-> fields[phones[i]].value]

\* Record.__init__: `if phone:` is true of every Phone object, whether or
\* not it holds a value, and false of None
record_init(name, phone, birthday) ==
    [name |-> name, phones |-> IF phone # 0 THEN <<phone>> ELSE <<>>, birthday |-> birthday]

NewRecord(name, phone, birthday) ==
    /\ name \in IdsOf("Name")
    /\ phone \in IdsOf("Phone") \cup {0}
    /\ birthday \in IdsOf("Birthday") \cup {0}
    /\ records' = Append(records, record_init(name, phone, birthday))
    /\ call' = [op |-> "Record", args |-> <<PyRef(name), PyRef(phone), PyRef(birthday)>>,
                ret |-> PyRef(Len(records) + 1)]
    /\ UNCHANGED <<now, fields, data, keys_iter>>

\* Record.days_to_birthday
days_to_birthday(rec, current_date) ==
    IF rec.birthday = 0 THEN PyNone
    ELSE LET bv == fields[rec.birthday].value IN
         IF bv.t # "datetime" THEN PyRaise("AttributeError")
         ELSE IF ~ValidDate(current_date.year, bv.month, bv.day) THEN PyRaise("ValueError")
         ELSE LET this_year == PyDate(current_date.year, bv.month, bv.day, 0, 0) IN
              IF DtLess(this_year, current_date)
              THEN IF ~ValidDate(current_date.year + 1, bv.month, bv.day)
                   THEN PyRaise("ValueError")
                   ELSE PyInt(TimedeltaDays(PyDate(current_date.year + 1, bv.month, bv.day, 0, 0),
                                            current_date))
              ELSE PyInt(TimedeltaDays(this_year, current_date))

DaysToBirthday(r) ==
    /\ r \in RecordIds
    /\ call' = [op |-> "days_to_birthday", args |-> <<PyRef(r)>>,
                ret |-> days_to_birthday(records[r], now)]
    /\ UNCHANGED <<now, fields, records, data, keys_iter>>

\* Record.add_phone: None has no attribute value (AttributeError, caught)
add_phone(phones, phone) ==
    IF phone = 0 THEN phones
    ELSE IF Truthy(fields[phone].value) THEN Append(phones, phone) ELSE phones

AddPhone(r, phone) ==
    /\ r \in RecordIds
    /\ phone \in IdsOf("Phone") \cup {0}
    /\ records' = [records EXCEPT ![r].phones = add_phone(@, phone)]
    /\ call' = [op |-> "add_phone", args |-> <<PyRef(r), PyRef(phone)>>, ret |-> PyNone]
    /\ UNCHANGED <<now, fields, data, keys_iter>>

\* list.remove(x): the first element equal to x goes; Phone defines no
\* __eq__, so equal means the same object
RECURSIVE IndexOf(_, _, _)
IndexOf(lst, x, i) ==
    IF i > Len(lst) THEN 0 ELSE IF lst[i] = x THEN i ELSE IndexOf(lst, x, i + 1)

ListRemove(lst, x) ==
    LET k == IndexOf(lst, x, 1)
    IN  SubSeq(lst, 1, k - 1) \o SubSeq(lst, k + 1, Len(lst))

\* Record.remove_phone: the for loop holds an index into self.phones that
\* advances by one at every turn, while the body shortens the same list
RECURSIVE remove_phone(_, _, _)
remove_phone(phones, value, i) ==
    IF i > Len(phones) THEN phones
    ELSE IF value = fields[phones[i]].value
         THEN remove_phone(ListRemove(phones, phones[i]), value, i + 1)
         ELSE remove_phone(phones, value, i + 1)

RemovePhone(r, phone) ==
    /\ r \in RecordIds
    /\ phone \in IdsOf("Phone")
    /\ records' = [records EXCEPT ![r].phones = remove_phone(@, fields[phone].value, 1)]
    /\ call' = [op |-> "remove_phone", args |-> <<PyRef(r), PyRef(phone)>>, ret |-> PyNone]
    /\ UNCHANGED <<now, fields, data, keys_iter>>

RECURSIVE edit_phone_FirstOnly(_, _, _, _)
edit_phone_FirstOnly(phones, old_value, new_phone, idx) ==
    IF idx > Len(phones) THEN phones
    ELSE IF old_value = fields[phones[idx]].value
         THEN [phones EXCEPT ![idx] = new_phone]
         ELSE edit_phone_FirstOnly(phones, old_value, new_phone, idx + 1)

\* Record.edit_phone: the loop has no break and goes on after a replacement
RECURSIVE edit_phone(_, _, _, _)
edit_phone(phones, old_value, new_phone, idx) ==
    IF idx > Len(phones) THEN phones
    ELSE IF old_value = fields[phones[idx]].value
         THEN edit_phone([phones EXCEPT ![idx] = new_phone], old_value, new_phone, idx + 1)
         ELSE edit_phone(phones, old_value, new_phone, idx + 1)

EditPhone(r, old_phone, new_phone) ==
    /\ r \in RecordIds
    /\ old_phone \in IdsOf("Phone")
    /\ new_phone \in IdsOf("Phone")
    /\ records' = [records EXCEPT
                     ![r].phones = edit_phone(@, fields[old_phone].value, new_phone, 1)]
    /\ call' = [op |-> "edit_phone", args |-> <<PyRef(r), PyRef(old_phone), PyRef(new_phone)>>, ret |-> PyNone]
    /\ UNCHANGED <<now, fields, data, keys_iter>>

----------------------------------------------------------------------------
(* one Record and its phone list: the operations on a phone list read and   *)
(* write the list of their own Record only                                  *)

RecordPhoneInputs == {Phone1, Phone3, PhoneBad}

InitRecord ==
    /\ now = Instants[1]
    /\ fields = <<>>
    /\ records = <<>>
    /\ data = <<>>
    /\ keys_iter = NoIter
    /\ call = NoCall

NextRecord ==
    \/ Len(fields) < MaxHeapFields /\ NewField("Name", Bill)
    \/ \E val \in RecordPhoneInputs : Len(fields) < MaxHeapFields /\ NewField("Phone", val)
    \/ \E name \in FieldIds, phone \in FieldIds \cup {0} :
          records = <<>> /\ NewRecord(name, phone, 0)
    \/ \E r \in RecordIds, phone \in FieldIds \cup {0} :
          Len(records[r].phones) < MaxPhones /\ AddPhone(r, phone)
    \/ \E r \in RecordIds, phone \in FieldIds : RemovePhone(r, phone)
    \/ \E r \in RecordIds, old_phone \in FieldIds, new_phone \in FieldIds :
          EditPhone(r, old_phone, new_phone)

SpecRecord == InitRecord /\ [][NextRecord]_vars

----------------------------------------------------------------------------
(* one Record and its birthday, under the clock *)

InitBirthday ==
    /\ now \in {Instants[i] : i \in 1..Len(Instants)}
    /\ fields = <<>>
    /\ records = <<>>
    /\ data = <<>>
    /\ keys_iter = NoIter
    /\ call = NoCall

NextBirthday ==
    \/ Len(fields) < MaxBirthdayFields /\ NewField("Name", Bill)
    \/ \E val \in BirthdayInputs : Len(fields) < MaxBirthdayFields /\ NewField("Birthday", val)
    \/ \E name \in FieldIds, birthday \in FieldIds \cup {0} :
          records = <<>> /\ NewRecord(name, 0, birthday)
    \/ \E r \in RecordIds : DaysToBirthday(r)
    \/ Tick

SpecBirthday == InitBirthday /\ [][NextBirthday]_vars

----------------------------------------------------------------------------
(* AddressBook *)

\* self.data is a dict: a sequence of entries in the insertion order of the
\* keys, at most one entry for a key
RECURSIVE KeyIndex(_, _, _)
KeyIndex(d, key, i) ==
    IF i > Len(d) THEN 0 ELSE IF d[i].key = key THEN i ELSE KeyIndex(d, key, i + 1)

add_record_Append(d, key, r) == Append(d, [key |-> key, rec |-> r])

\* self.data[key] = record: a key that is present keeps its place
add_record(d, key, r) ==
    LET k == KeyIndex(d, key, 1)
    IN  IF k # 0 THEN [d EXCEPT ![k].rec = r] ELSE Append(d, [key |-> key, rec |-> r])

\* AddressBook.add_record
AddRecord(r) ==
    /\ r \in RecordIds
    /\ data' = add_record(data, fields[records[r].name].value, r)
    /\ call' = [op |-> "add_record", args |-> <<PyRef(r)>>, ret |-> PyNone]
    /\ UNCHANGED <<now, fields, records, keys_iter>>

\* the loop of search over a Name: no break, the last match stays
RECURSIVE search_name(_, _, _, _)
search_name(d, i, value, results) ==
    IF i > Len(d) THEN results
    ELSE search_name(d, i + 1, value,
                     IF value = d[i].key
                     THEN PyList(Values(records[d[i].rec].phones))
                     ELSE results)

RECURSIVE search_phone_FirstMatch(_, _, _, _)
search_phone_FirstMatch(d, i, value, results) ==
    IF i > Len(d) THEN results
    ELSE IF \E j \in 1..Len(records[d[i].rec].phones) :
                value = fields[records[d[i].rec].phones[j]].value
         THEN d[i].key
         ELSE search_phone_FirstMatch(d, i + 1, value, results)

\* the loops of search over a Phone: every match in a record assigns the
\* record's key, no break, the last record with a match stays
RECURSIVE search_phone(_, _, _, _)
search_phone(d, i, value, results) ==
    IF i > Len(d) THEN results
    ELSE search_phone(d, i + 1, value,
                      IF \E j \in 1..Len(records[d[i].rec].phones) :
                            value = fields[records[d[i].rec].phones[j]].value
                      THEN d[i].key
                      ELSE results)

\* AddressBook.search
search(search_obj) ==
    CASE fields[search_obj].kind = "Name" ->
            search_name(data, 1, fields[search_obj].value, PyNone)
      [] fields[search_obj].kind = "Phone" ->
            search_phone(data, 1, fields[search_obj].value, PyNone)
      [] OTHER -> PyNone

Search(search_obj) ==
    /\ search_obj \in FieldIds
    /\ call' = [op |-> "search", args |-> <<PyRef(search_obj)>>, ret |-> search(search_obj)]
    /\ UNCHANGED <<now, fields, records, data, keys_iter>>

iter_KeepCursor(it, d) ==
    IF it.st = "unset" THEN [st |-> "live", pos |-> 0, used |-> Len(d)] ELSE it

\* iter(self.data): a new key iterator at the first entry, which remembers
\* the size of the dict
iter(it, d) == [st |-> "live", pos |-> 0, used |-> Len(d)]

\* AddressBook.__iter__: the iterator is stored in the book, which is returned
Iter ==
    /\ keys_iter' = iter(keys_iter, data)
    /\ call' = [op |-> "__iter__", args |-> <<>>, ret |-> [t |-> "self"]]
    /\ UNCHANGED <<now, fields, records, data>>

\* next(self.keys_iter): no attribute before the first __iter__; a dict whose
\* size changed makes the iterator raise RuntimeError from then on; an
\* exhausted iterator stays exhausted
dict_next(it, d) ==
    CASE it.st = "unset" -> [it |-> it, exc |-> "AttributeError", key |-> PyNone]
      [] it.st = "exhausted" -> [it |-> it, exc |-> "StopIteration", key |-> PyNone]
      [] it.st = "invalid" -> [it |-> it, exc |-> "RuntimeError", key |-> PyNone]
      [] OTHER ->
           IF it.used # Len(d)
           THEN [it |-> [it EXCEPT !.st = "invalid"], exc |-> "RuntimeError", key |-> PyNone]
           ELSE IF it.pos >= Len(d)
           THEN [it |-> [it EXCEPT !.st = "exhausted"], exc |-> "StopIteration", key |-> PyNone]
           ELSE [it |-> [it EXCEPT !.pos = @ + 1], exc |-> "none", key |-> d[it.pos + 1].key]

\* the loop `for _ in range(n)` of __next__ that fills items
RECURSIVE collect(_, _, _, _)
collect(it, d, n, items) ==
    IF n <= 0 THEN [it |-> it, exc |-> "none", items |-> items]
    ELSE LET r == dict_next(it, d) IN
         IF r.exc # "none" THEN [it |-> r.it, exc |-> r.exc, items |-> items]
         ELSE collect(r.it, d, n - 1,
                      Append(items, [key |-> r.key, rec |-> d[KeyIndex(d, r.key, 1)].rec]))

Digit(i) == DigitChars[i + 1]

\* strftime("%d.%m.%Yp")
strftime(dt) ==
    PyStr(<<Digit(dt.day \div 10), Digit(dt.day % 10), ".",
            Digit(dt.month \div 10), Digit(dt.month % 10), ".",
            Digit(dt.year \div 1000), Digit((dt.year \div 100) % 10),
            Digit((dt.year \div 10) % 10), Digit(dt.year % 10), "p">>)

Blank == PyStr(<<" ">>)

\* the rows of one record: a row per phone, the key and the birthday in the
\* first row only, one row if there is no phone.  A row is its three cells,
\* without the padding.  str.format raises TypeError for None under a width,
\* and None has no strftime.
RECURSIVE record_rows(_, _, _, _, _)
record_rows(name, user, birthday, i, rows) ==
    IF i > Len(user.phones) THEN PyList(rows)
    ELSE LET value == fields[user.phones[i]].value IN
         IF value = PyNone \/ (i = 1 /\ name = PyNone) THEN PyRaise("TypeError")
         ELSE record_rows(name, user, birthday, i + 1,
                          Append(rows, IF i = 1 THEN <<name, value, birthday>>
                                       ELSE <<Blank, value, Blank>>))

\* the loop `for name, user in items` of __next__
RECURSIVE representation_record(_, _, _)
representation_record(items, k, rows) ==
    IF k > Len(items) THEN PyList(rows)
    ELSE LET name == items[k].key
             user == records[items[k].rec]
         IN  IF user.birthday # 0 /\ fields[user.birthday].value = PyNone
             THEN PyRaise("AttributeError")
             ELSE LET birthday == IF user.birthday # 0
                                  THEN strftime(fields[user.birthday].value)
                                  ELSE PyStr(<<>>)
                      r == IF user.phones = <<>>
                           THEN IF name = PyNone THEN PyRaise("TypeError")
                                ELSE PyList(<<<<name, Blank, birthday>>>>)
                           ELSE record_rows(name, user, birthday, 1, <<>>)
                  IN  IF r.t = "raise" THEN r
                      ELSE representation_record(items, k + 1, rows \o r.v)

Keys(items) == [k \in 1..Len(items) |-> items[k].key]

\* AddressBook.__next__: the keys are consumed before the page is rendered;
\* StopIteration is re-raised only if no item was collected
next_result(c) ==
    IF c.exc \notin {"none", "StopIteration"} THEN PyRaise(c.exc)
    ELSE IF c.exc = "StopIteration" /\ c.items = <<>> THEN PyRaise("StopIteration")
    ELSE LET text == representation_record(c.items, 1, <<>>) IN
         IF text.t = "raise" THEN text
         ELSE [t |-> "page", items |-> Keys(c.items), rows |-> text.v]

NextPage(n) ==
    LET c == collect(keys_iter, data, n, <<>>) IN
    /\ keys_iter' = c.it
    /\ call' = [op |-> "__next__", args |-> <<PyInt(n)>>, ret |-> next_result(c)]
    /\ UNCHANGED <<now, fields, records, data>>

----------------------------------------------------------------------------
(* an AddressBook over records that were built beforehand *)

BookNow == Instants[1]

\* 1..4 names (the last holds None), 5..8 phones (5 and 7 hold the same
\* value, 8 holds None), 9..10 birthdays (10 holds None)
BookFields ==
    << FieldInit("Name", Bill, BookNow), FieldInit("Name", JohnDoe, BookNow),
       FieldInit("Name", Ann, BookNow), FieldInit("Name", Empty, BookNow),
       FieldInit("Phone", Phone1, BookNow), FieldInit("Phone", Phone2, BookNow),
       FieldInit("Phone", Phone1, BookNow), FieldInit("Phone", PhoneBad, BookNow),
       FieldInit("Birthday", PyDate(1991, 8, 24, 0, 0), BookNow),
       FieldInit("Birthday", PyDate(2026, 8, 24, 0, 0), BookNow) >>

BookRecords ==
    << [record_init(1, 5, 0) EXCEPT !.phones = <<5, 6>>],
       record_init(2, 6, 9),
       record_init(1, 7, 0),
       record_init(3, 0, 0),
       record_init(4, 5, 0),
       record_init(2, 8, 0),
       record_init(3, 0, 10) >>

PageSizes == 1..MaxPage \cup {N}

InitBook ==
    /\ now = BookNow
    /\ fields = BookFields
    /\ records = BookRecords
    /\ data = <<>>
    /\ keys_iter = NoIter
    /\ call = NoCall

NextBook ==
    \/ \E r \in RecordIds : AddRecord(r)
    \/ \E search_obj \in FieldIds : Search(search_obj)
    \/ Iter
    \/ \E n \in PageSizes : NextPage(n)

SpecBook == InitBook /\ [][NextBook]_vars

----------------------------------------------------------------------------
(* properties *)

DigitCount(str) == Cardinality({i \in 1..Len(str) : str[i] \in Digits})

\* the validation rules as the data model states them
RuleHolds(kind, val, current) ==
    CASE kind = "Phone" ->
            val.t = "str" /\ DigitCount(val.v) \in 9..12 /\ Len(val.v) < 20
      [] kind = "Birthday" ->
            val.t = "datetime" /\ current.year - val.year \in 1..100
      [] OTHER -> val.t = "str" /\ val.v # <<>>

NonMatching(phones, value) == SelectSeq(phones, LAMBDA x : fields[x].value # value)

Matches(phones, value) == {i \in 1..Len(phones) : fields[phones[i]].value = value}

\* C1: remove_phone(p) leaves no phone whose value equals p's value, and the
\* other phones stay in their relative order
C1_RemovePhoneRemovesEvery ==
    [][(call'.op = "remove_phone" /\ RemovePhone(call'.args[1].v, call'.args[2].v)) =>
          LET r == call'.args[1].v
              value == fields[call'.args[2].v].value
          IN  /\ Matches(records'[r].phones, value) = {}
              /\ NonMatching(records'[r].phones, value)
                    = NonMatching(records[r].phones, value)]_vars

\* C2 as stated: edit_phone(old, new) replaces only the first phone whose
\* value equals old's value and leaves every other element unchanged
C2_EditPhoneFirstOnly ==
    [][(call'.op = "edit_phone"
          /\ EditPhone(call'.args[1].v, call'.args[2].v, call'.args[3].v)) =>
          LET before == records[call'.args[1].v].phones
              m == Matches(before, fields[call'.args[2].v].value)
          IN  records'[call'.args[1].v].phones =
                 IF m = {} THEN before
                 ELSE [before EXCEPT
                         ![CHOOSE i \in m : \A j \in m : i <= j] = call'.args[3].v]]_vars

\* C2 amended: edit_phone(old, new) replaces every phone whose value equals
\* old's value by new at the same index; the other elements and the length
\* are unchanged, and without a match the list is unchanged
C2_EditPhoneEveryMatch ==
    [][(call'.op = "edit_phone"
          /\ EditPhone(call'.args[1].v, call'.args[2].v, call'.args[3].v)) =>
          LET before == records[call'.args[1].v].phones
              after == records'[call'.args[1].v].phones
          IN  /\ Len(after) = Len(before)
              /\ \A i \in 1..Len(before) :
                    after[i] = IF i \in Matches(before, fields[call'.args[2].v].value)
                               THEN call'.args[3].v ELSE before[i]]_vars

\* an edit has replaced two phones of one list by the new phone
C2_Witness ==
    /\ call.op = "edit_phone"
    /\ LET phones == records[call.args[1].v].phones
       IN  /\ fields[call.args[2].v].value # fields[call.args[3].v].value
           /\ Cardinality({i \in 1..Len(phones) : phones[i] = call.args[3].v}) >= 2

\* C3: Record(name, phone) appends the phone only if it holds a value, and
\* add_phone of a phone without a value leaves the list unchanged
C3_NoValuelessPhoneAppended ==
    [][/\ (call'.op = "Record"
             /\ NewRecord(call'.args[1].v, call'.args[2].v, call'.args[3].v)) =>
             \A i \in 1..Len(records'[Len(records')].phones) :
                Truthy(fields[records'[Len(records')].phones[i]].value)
       /\ (call'.op = "add_phone" /\ AddPhone(call'.args[1].v, call'.args[2].v)) =>
             LET phone == call'.args[2].v
             IN  (phone = 0 \/ ~Truthy(fields[phone].value)) => records' = records]_vars

\* C5: days_to_birthday is 0 at every instant of a day whose month and day
\* are the birthday's
C5_BirthdayTodayIsZero ==
    [][(call'.op = "days_to_birthday" /\ DaysToBirthday(call'.args[1].v)) =>
          LET birthday == records[call'.args[1].v].birthday
          IN  (/\ birthday # 0
               /\ fields[birthday].value.t = "datetime"
               /\ fields[birthday].value.month = now.month
               /\ fields[birthday].value.day = now.day)
                 => call'.ret = PyInt(0)]_vars

\* C6: a field holds None or a value that passed its rule when it was set: a
\* construction with an invalid value leaves None, an assignment of an invalid
\* value leaves the held value, an assignment of a valid value replaces it
C6_FieldNeverHoldsInvalid ==
    [][/\ (call'.op \in Kinds /\ NewField(call'.op, call'.args[1])) =>
             fields'[Len(fields')].value =
                IF RuleHolds(call'.op, call'.args[1], now) THEN call'.args[1] ELSE PyNone
       /\ (call'.op = "value.setter" /\ SetValue(call'.args[1].v, call'.args[2])) =>
             LET f == call'.args[1].v
                 val == call'.args[2]
             IN  fields'[f].value =
                    IF RuleHolds(fields[f].kind, val, now) THEN val ELSE fields[f].value
       /\ \A f \in 1..Len(fields') :
             \/ fields'[f].value = PyNone
             \/ f \in FieldIds /\ fields'[f].value = fields[f].value
             \/ RuleHolds(fields'[f].kind, fields'[f].value, now')]_vars

\* an assignment of an invalid value was rejected by a field that keeps the
\* value it held
C6_Witness ==
    /\ call.op = "value.setter"
    /\ ~RuleHolds(fields[call.args[1].v].kind, call.args[2], now)
    /\ fields[call.args[1].v].value # PyNone
    /\ fields[call.args[1].v].value # call.args[2]

\* C7: Phone(s) holds s exactly when s has 9 to 12 digit characters and fewer
\* than 20 characters, and holds no value otherwise
C7_PhoneHoldsIffRule ==
    call.op = "Phone" =>
       LET s == call.args[1]
       IN  fields[call.ret.v].value =
              IF DigitCount(s.v) >= 9 /\ DigitCount(s.v) <= 12 /\ Len(s.v) < 20
              THEN s ELSE PyNone

\* a Phone was built from a string of 9 digits among 19 characters and holds it
C7_Witness ==
    /\ call.op = "Phone"
    /\ fields[call.ret.v].value = call.args[1]
    /\ DigitCount(call.args[1].v) = 9
    /\ Len(call.args[1].v) = 19

Min(a, b) == IF a < b THEN a ELSE b

DataKeys == [i \in 1..Len(data) |-> data[i].key]

\* the cursor is inside an iteration over a book whose size has not changed
\* since the iteration started
Iterating == keys_iter.st \in {"live", "exhausted"} /\ keys_iter.used = Len(data)

Remaining == IF keys_iter.st = "live" THEN Len(data) - keys_iter.pos ELSE 0

\* C4: an iteration over k records with page size n goes through the records
\* in insertion order, n to a page and the rest in the last page: every pull
\* with records remaining returns a page of the next Min(n, remaining)
\* records, and every pull with none remaining (the first pull over an empty
\* book, the pull after the last page, and any later one) signals
\* StopIteration.  From a fresh cursor that is ceil(k/n) pages.
C4_PagesCoverRecords ==
    [][(call'.op = "__next__" /\ NextPage(call'.args[1].v) /\ Iterating) =>
          LET n == call'.args[1].v IN
          IF Remaining > 0
          THEN /\ call'.ret.t = "page"
               /\ call'.ret.items
                     = SubSeq(DataKeys, keys_iter.pos + 1, keys_iter.pos + Min(n, Remaining))
               /\ keys_iter'.st \in {"live", "exhausted"}
               /\ Remaining' = Remaining - Min(n, Remaining)
          ELSE /\ call'.ret = PyRaise("StopIteration")
               /\ Remaining' = 0]_vars

\* the same over the pulls that do not fail while the page is rendered: the
\* cursor itself goes through the records n at a time
PagesCoverRenderedRecords ==
    [][(call'.op = "__next__" /\ NextPage(call'.args[1].v) /\ Iterating
          /\ call'.ret \notin {PyRaise("TypeError"), PyRaise("AttributeError")}) =>
          LET n == call'.args[1].v IN
          IF Remaining > 0
          THEN /\ call'.ret.t = "page"
               /\ call'.ret.items
                     = SubSeq(DataKeys, keys_iter.pos + 1, keys_iter.pos + Min(n, Remaining))
               /\ Remaining' = Remaining - Min(n, Remaining)
          ELSE /\ call'.ret = PyRaise("StopIteration")
               /\ Remaining' = 0]_vars

NameOf(r) == fields[records[r].name].value

\* C8: the book holds at most one record for a name, the one added last:
\* after add_record(r) a search for r's name returns r's phone values in
\* order, searches for the other names return what they returned before, and
\* a search for a name that is no key returns None
C8_LastAddedWins ==
    [][/\ (call'.op = "add_record" /\ AddRecord(call'.args[1].v)) =>
             LET r == call'.args[1].v IN
             /\ \A q \in IdsOf("Name") :
                   search(q)' = IF fields[q].value = NameOf(r)
                                THEN PyList(Values(records[r].phones))
                                ELSE search(q)
             /\ \A i, j \in 1..Len(data') : data'[i].key = data'[j].key => i = j
       /\ (call'.op = "search" /\ Search(call'.args[1].v)) =>
             LET q == call'.args[1].v IN
             (fields[q].kind = "Name" /\ \A i \in 1..Len(data) : data[i].key # fields[q].value)
                => call'.ret = PyNone]_vars

\* a record was added under a name that had a record with other phones, and
\* the search for the name returns the phones of the record added last
C8_Witness ==
    /\ call.op = "add_record"
    /\ \E i \in 1..Len(data) :
          /\ data[i].key = NameOf(call.args[1].v)
          /\ data[i].rec = call.args[1].v
          /\ i < Len(data)
    /\ \E q \in IdsOf("Name") :
          /\ fields[q].value = NameOf(call.args[1].v)
          /\ search(q) = PyList(Values(records[call.args[1].v].phones))
          /\ Len(search(q).v) = 1
    /\ \E r \in RecordIds :
          /\ r # call.args[1].v
          /\ NameOf(r) = NameOf(call.args[1].v)
          /\ Len(records[r].phones) = 2

Holders(value) ==
    {i \in 1..Len(data) :
        \E j \in 1..Len(records[data[i].rec].phones) :
           fields[records[data[i].rec].phones[j]].value = value}

\* C9: a search for a Phone returns None if no record of the book holds the
\* value, and otherwise the key of the last record, in the order of the
\* book, that holds it
C9_SearchPhoneLastHolder ==
    \A q \in IdsOf("Phone") :
       LET h == Holders(fields[q].value)
       IN  search(q) = IF h = {} THEN PyNone
                       ELSE data[CHOOSE i \in h : \A j \in h : j <= i].key

\* a search for a phone held by two records returned the key of the later one
C9_Witness ==
    /\ call.op = "search"
    /\ fields[call.args[1].v].kind = "Phone"
    /\ \E i, j \in Holders(fields[call.args[1].v].value) :
          i < j /\ data[i].key # data[j].key /\ call.ret = data[j].key
                /\ \A k \in Holders(fields[call.args[1].v].value) : k <= j

\* C10: the book has one cursor: __iter__ puts it at the first record
\* whatever its state was, and the pull that follows __iter__, if it returns a
\* page, returns one that begins with the first record in insertion order
C10_IterResetsSharedCursor ==
    [][/\ (call'.op = "__iter__" /\ Iter) =>
             /\ keys_iter'.st = "live"
             /\ keys_iter'.pos = 0
             /\ call'.ret = [t |-> "self"]
       /\ (call'.op = "__next__" /\ NextPage(call'.args[1].v)
             /\ call.op = "__iter__" /\ call'.ret.t = "page") =>
             /\ call'.ret.items = SubSeq(DataKeys, 1, Min(call'.args[1].v, Len(data)))
             /\ keys_iter'.pos = Min(call'.args[1].v, Len(data))]_vars

\* __iter__ has acted on a book of several records: the cursor is at the first
\* record, for a book of the size it has now
C10_Witness ==
    /\ call.op = "__iter__"
    /\ keys_iter = [st |-> "live", pos |-> 0, used |-> Len(data)]
    /\ Len(data) >= 2

====
